---------------------------- MODULE Spec2Model ----------------------------
(***************************************************************************)
(* Affinity Manager (src/affinity_manager.py): CPU topology inference,    *)
(* process classification, the asynchronous catch-all scan and the        *)
(* per-process affinity application, as state machines.                   *)
(*                                                                         *)
(* Specifications:                                                         *)
(*   SpecTopo  - get_cpu_info over every (logical, physical) input.        *)
(*   SpecApply - set_affinity_with_debug over batches and fault patterns.  *)
(*   SpecClass - the fast pass and the full pass over one snapshot.        *)
(*   SpecValid - validate_other_affinity over topologies and ranges.       *)
(*   Spec      - the application: startup, refresh, the worker threads of  *)
(*               the catch-all scan, the posted completion, apply.         *)
(*   SpecOnApply  - one on_apply call over groups, ranges and outcomes.    *)
(*   SpecStartup  - construction and refresh on every topology.            *)
(*   SpecSelector - one CoreSelector under set_range and the mouse.        *)
(*   SpecLive     - the application under fair scheduling.                 *)
(***************************************************************************)
EXTENDS Integers, Sequences, FiniteSets, TLC

VARIABLES
    hw,          \* what psutil.cpu_count reports: [logical, physical]
    cpu_info,    \* the dict get_cpu_info returned, or NoInfo before the call
    os,          \* the operating system's process table, in pid order
    fast,        \* what discover_all_processes_single_pass returned, or NoScan
    full,        \* what find_other_processes returned, or NoScan
    call,        \* the arguments of a call of set_affinity_with_debug
    ret,         \* what that call returned and did, or NoRet
    active_groups,        \* self.active_groups: name -> (patterns, procs, selector), in insertion order
    known_pids,           \* self.known_pids
    other_procs,          \* self.other_procs
    other_discovery_done, \* self.other_discovery_done
    other_selector,       \* self.other_selector
    apply_btn,            \* the state of self.apply_btn
    status_label,         \* the text of self.status_label
    other_label,          \* the "Other:" label of detect_frame
    workers,              \* the discover() threads started so far
    after_queue,          \* callbacks posted with root.after(0, ...) and not yet run
    apply_log,            \* what the last on_apply call did and reported
    drags,                \* the number of mouse gestures so far
    proposal,             \* the arguments of a call of validate_other_affinity
    verdict               \* what that call returned, or NoVerdict

topoVars == <<hw, cpu_info>>
classVars == <<fast, full>>
applyVars == <<call, ret>>
validVars == <<proposal, verdict>>
appVars == <<active_groups, known_pids, other_procs, other_discovery_done,
             other_selector, apply_btn, status_label, other_label, workers,
             after_queue, apply_log, drags>>
vars == <<hw, cpu_info, os, fast, full, call, ret, active_groups, known_pids,
          other_procs, other_discovery_done, other_selector, apply_btn,
          status_label, other_label, workers, after_queue, apply_log,
          drags, proposal, verdict>>

(***************************************************************************)
(* Bounds                                                                  *)
(***************************************************************************)
MaxLogical == 24

Max(a, b) == IF a >= b THEN a ELSE b
Min(a, b) == IF a <= b THEN a ELSE b

(***************************************************************************)
(* Python's floor division (logical // physical), physical > 0.            *)
(***************************************************************************)
FloorDiv(a, b) == a \div b

NoInfo == [logical |-> 0, physical |-> 0, p_cores |-> 0, e_cores |-> 0,
           p_count |-> 0, e_count |-> 0, core_types |-> << >>,
           threads_per_core |-> 0]

(***************************************************************************)
(* MAX_THREADS_PER_CORE and the hybrid threshold of get_cpu_info.          *)
(***************************************************************************)
MAX_THREADS_PER_CORE == 300
HybridMinPhysical == 10

(***************************************************************************)
(* get_cpu_info, lines 72-112.                                             *)
(***************************************************************************)
\* get_cpu_info with p_count = p_cores (the SMT doubling forgotten).
get_cpu_info_no_double(logical, physical) ==
    LET threads_per_core == IF physical # 0
                            THEN Max(1, FloorDiv(logical, physical)) ELSE 1
        hybrid   == logical > physical /\ physical >= HybridMinPhysical
        ht_threads == logical - physical
        p_cores  == IF hybrid THEN ht_threads ELSE physical
        e_cores  == IF hybrid THEN physical - p_cores ELSE 0
        p_count  == IF hybrid THEN p_cores ELSE logical
        e_count  == IF hybrid THEN e_cores ELSE 0
    IN  [logical |-> logical, physical |-> physical,
         p_cores |-> p_cores, e_cores |-> e_cores,
         p_count |-> p_count, e_count |-> e_count,
         core_types |-> [i \in 1..logical |->
                            IF (i - 1) < p_count THEN "P" ELSE "E"],
         threads_per_core |-> threads_per_core]

\* get_cpu_info without the physical >= 10 test and with threads_per_core
\* computed as logical // max(1, physical) without the lower bound of 1.
get_cpu_info_no_threshold(logical, physical) ==
    LET threads_per_core == IF physical # 0
                            THEN FloorDiv(logical, physical) + 1 ELSE 1
        hybrid   == logical > physical
        ht_threads == logical - physical
        p_cores  == IF hybrid THEN ht_threads ELSE physical
        e_cores  == IF hybrid THEN physical - p_cores ELSE 0
        p_count  == IF hybrid THEN p_cores * 2 ELSE logical
        e_count  == IF hybrid THEN e_cores ELSE 0
    IN  [logical |-> logical, physical |-> physical,
         p_cores |-> p_cores, e_cores |-> e_cores,
         p_count |-> p_count, e_count |-> e_count,
         core_types |-> [i \in 1..logical |->
                            IF (i - 1) < p_count THEN "P" ELSE "E"],
         threads_per_core |-> threads_per_core]

get_cpu_info(logical, physical) ==
    LET threads_per_core == IF physical # 0
                            THEN Max(1, FloorDiv(logical, physical)) ELSE 1
        hybrid   == logical > physical /\ physical >= HybridMinPhysical
        ht_threads == logical - physical
        p_cores  == IF hybrid THEN ht_threads ELSE physical
        e_cores  == IF hybrid THEN physical - p_cores ELSE 0
        p_count  == IF hybrid THEN p_cores * 2 ELSE logical
        e_count  == IF hybrid THEN e_cores ELSE 0
    IN  [logical |-> logical, physical |-> physical,
         p_cores |-> p_cores, e_cores |-> e_cores,
         p_count |-> p_count, e_count |-> e_count,
         \* core_types[i + 1] is the label of core i
         core_types |-> [i \in 1..logical |->
                            IF (i - 1) < p_count THEN "P" ELSE "E"],
         threads_per_core |-> threads_per_core]

(***************************************************************************)
(* Strings are sequences of one-character strings, so that lower() and     *)
(* the substring test `p in s` are computed and not assumed. The empty     *)
(* sequence stands for both None and '': Python treats both as false.      *)
(***************************************************************************)
NoneStr == << >>

UpperChars == <<"A","B","C","D","E","F","G","H","I","J","K","L","M","N","O","P","Q","R","S","T","U","V","W","X","Y","Z">>
LowerChars == <<"a","b","c","d","e","f","g","h","i","j","k","l","m","n","o","p","q","r","s","t","u","v","w","x","y","z">>

LowerChar(c) ==
    IF \E i \in 1..Len(UpperChars) : UpperChars[i] = c
    THEN LowerChars[CHOOSE i \in 1..Len(UpperChars) : UpperChars[i] = c]
    ELSE c

\* str.lower()
lower(s) == [i \in 1..Len(s) |-> LowerChar(s[i])]

\* p in s, for strings
IsSubstring(p, s) ==
    \E k \in 0..(Len(s) - Len(p)) : \A i \in 1..Len(p) : s[k + i] = p[i]

(***************************************************************************)
(* KNOWN_PATTERNS, lines 31-35: a dict, iterated in insertion order.       *)
(***************************************************************************)
KNOWN_PATTERNS ==
    <<
      [name |-> "Minecraft", patterns |-> <<
          <<"j","a","v","a","w">>,
          <<"j","a","v","a">>,
          <<"l","u","n","a","r">>,
          <<"b","a","d","l","i","o","n">>,
          <<"f","e","a","t","h","e","r">>
      >>],
      [name |-> "Discord", patterns |-> <<
          <<"d","i","s","c","o","r","d">>
      >>],
      [name |-> "OBS", patterns |-> <<
          <<"o","b","s","6","4">>,
          <<"o","b","s","3","2">>,
          <<"o","b","s","-","b","r","o","w","s","e","r">>
      >>]
    >>

Categories == 1..Len(KNOWN_PATTERNS)

(***************************************************************************)
(* SKIP_ALWAYS, lines 37-43.                                               *)
(***************************************************************************)
SKIP_ALWAYS ==
    {
      <<"s","y","s","t","e","m">>,
      <<"s","y","s","t","e","m"," ","i","d","l","e"," ","p","r","o","c","e","s","s">>,
      <<"i","d","l","e">>,
      <<"r","e","g","i","s","t","r","y">>,
      <<"m","e","m","c","o","m","p","r","e","s","s","i","o","n">>,
      <<"m","e","m","o","r","y"," ","c","o","m","p","r","e","s","s","i","o","n">>,
      <<"s","m","s","s",".","e","x","e">>,
      <<"c","s","r","s","s",".","e","x","e">>,
      <<"w","i","n","i","n","i","t",".","e","x","e">>,
      <<"s","e","r","v","i","c","e","s",".","e","x","e">>,
      <<"l","s","a","s","s",".","e","x","e">>,
      <<"w","i","n","l","o","g","o","n",".","e","x","e">>,
      <<"d","w","m",".","e","x","e">>,
      <<"f","o","n","t","d","r","v","h","o","s","t",".","e","x","e">>,
      <<"s","i","h","o","s","t",".","e","x","e">>,
      <<"s","t","a","r","t","m","e","n","u","e","x","p","e","r","i","e","n","c","e","h","o","s","t",".","e","x","e">>,
      <<"s","h","e","l","l","e","x","p","e","r","i","e","n","c","e","h","o","s","t",".","e","x","e">>,
      <<"s","e","a","r","c","h","u","i",".","e","x","e">>,
      <<"s","e","a","r","c","h","a","p","p",".","e","x","e">>,
      <<"r","u","n","t","i","m","e","b","r","o","k","e","r",".","e","x","e">>,
      <<"c","t","f","m","o","n",".","e","x","e">>,
      <<"a","u","d","i","o","d","g",".","e","x","e">>,
      <<"m","c","-","f","w","-","h","o","s","t",".","e","x","e">>,
      <<"a","f","f","i","n","i","t","y","_","m","a","n","a","g","e","r",".","e","x","e">>
    }

\* name_lower in SKIP_ALWAYS
InSkipAlways(name_lower) == \E k \in SKIP_ALWAYS : k = name_lower

(***************************************************************************)
(* The process table. An entry is what psutil reports of one process:      *)
(*   pid, name, username, num_threads, cpu_percent (in tenths of a         *)
(*   percent), cores (its affinity mask) and status:                       *)
(*     "running" - listed by process_iter, cpu_affinity() works;           *)
(*     "exiting" - listed, but gone when inspected: NoSuchProcess;         *)
(*     "denied"  - listed, but protected: AccessDenied;                    *)
(*     "gone"    - no longer listed; its handle raises NoSuchProcess.      *)
(* The caller's own process is entry MyPid.                                *)
(***************************************************************************)
MyPid == 1

\* cpu_percent > 0.5, in tenths of a percent (line 161)
CpuFloorTenths == 5

\* psutil.process_iter(...): the listed processes, in pid order
process_iter(table) == SelectSeq(table, LAMBDA p : p.status # "gone")

\* proc.cpu_affinity() raises psutil.NoSuchProcess or psutil.AccessDenied
Raises(proc) == proc.status \in {"exiting", "denied", "gone"}

\* psutil.Process(os.getpid()).username(), None when it raises (118-121)
CurrentUser(table, my_pid) == table[my_pid].username

\* the ownership test with == written for != : same-identity processes
\* are filtered out and the others kept
OtherIdentity_inverted(current_user, username) ==
    /\ Len(current_user) # 0
    /\ Len(username) # 0
    /\ lower(username) = lower(current_user)

\* the ownership test of lines 157-159 and 198: TRUE when the process is
\* filtered out as another identity's
OtherIdentity(current_user, username) ==
    /\ Len(current_user) # 0
    /\ Len(username) # 0
    /\ lower(username) # lower(current_user)

\* lines 149-153: the first category, in the dict's order, one of whose
\* patterns is in name_lower; 0 when there is none (matched = False)
RECURSIVE first_match(_, _)
first_match(name_lower, c) ==
    IF c > Len(KNOWN_PATTERNS) THEN 0
    ELSE IF \E j \in 1..Len(KNOWN_PATTERNS[c].patterns) :
               IsSubstring(lower(KNOWN_PATTERNS[c].patterns[j]), name_lower)
         THEN c
         ELSE first_match(name_lower, c + 1)

\* the loop of lines 149-153 without its break, keeping the last match
RECURSIVE last_match(_, _)
last_match(name_lower, c) ==
    IF c > Len(KNOWN_PATTERNS) THEN 0
    ELSE LET later == last_match(name_lower, c + 1)
         IN  IF later # 0 THEN later
             ELSE IF \E j \in 1..Len(KNOWN_PATTERNS[c].patterns) :
                        IsSubstring(lower(KNOWN_PATTERNS[c].patterns[j]), name_lower)
                  THEN c ELSE 0

match_category_last(name_lower) == last_match(name_lower, 1)

match_category(name_lower) == first_match(name_lower, 1)

\* proc_data, lines 138-145. Its 'cores' (the mask read at scan time) is
\* never read again and is left out; 'proc' is the pid, which indexes
\* the process table.
fast_proc_data(proc) ==
    [pid |-> proc.pid, name |-> proc.name, threads |-> proc.num_threads,
     cpu_percent |-> proc.cpu_percent]

\* the iteration with the exclusion and ownership tests made before the
\* pattern match, as the full pass makes them
fast_step_filters_first(acc, proc, current_user, my_pid) ==
    LET name_lower == lower(proc.name)
    IN  IF Len(name_lower) = 0 \/ proc.pid = my_pid THEN acc
        ELSE IF Raises(proc) THEN acc
        ELSE IF InSkipAlways(name_lower) THEN acc
        ELSE IF OtherIdentity(current_user, proc.username) THEN acc
        ELSE LET pd == fast_proc_data(proc)
                 c  == match_category(name_lower)
             IN  IF c # 0
                 THEN [acc EXCEPT !.results[c] = Append(@, pd)]
                 ELSE IF pd.cpu_percent > CpuFloorTenths
                      THEN [acc EXCEPT !.top_cpu_candidates = Append(@, pd)]
                      ELSE acc

\* one iteration of the loop of lines 130-165
fast_step(acc, proc, current_user, my_pid) ==
    LET name_lower == lower(proc.name)
    IN  IF Len(name_lower) = 0 \/ proc.pid = my_pid THEN acc
        ELSE IF Raises(proc) THEN acc
        ELSE LET pd == fast_proc_data(proc)
                 c  == match_category(name_lower)
             IN  IF c # 0
                 THEN [acc EXCEPT !.results[c] = Append(@, pd)]
                 ELSE IF ~InSkipAlways(name_lower)
                      THEN IF OtherIdentity(current_user, proc.username)
                           THEN acc
                           ELSE IF pd.cpu_percent > CpuFloorTenths
                                THEN [acc EXCEPT !.top_cpu_candidates = Append(@, pd)]
                                ELSE acc
                      ELSE acc

RECURSIVE fast_loop(_, _, _, _, _)
fast_loop(procs, i, acc, current_user, my_pid) ==
    IF i > Len(procs) THEN acc
    ELSE fast_loop(procs, i + 1, fast_step(acc, procs[i], current_user, my_pid),
                   current_user, my_pid)

\* the sort without reverse=True: the lowest scorer is kept
top_of_lowest(cands) ==
    IF Len(cands) = 0 THEN << >>
    ELSE LET i == CHOOSE i \in 1..Len(cands) :
                    /\ \A j \in 1..Len(cands) : cands[j].cpu_percent >= cands[i].cpu_percent
                    /\ \A j \in 1..(i - 1) : cands[j].cpu_percent > cands[i].cpu_percent
         IN  <<cands[i]>>

\* sorted(candidates, key=cpu_percent, reverse=True)[:1], lines 170-172:
\* the sort is stable, so of equal maxima the first enumerated is kept
top_of(cands) ==
    IF Len(cands) = 0 THEN << >>
    ELSE LET i == CHOOSE i \in 1..Len(cands) :
                    /\ \A j \in 1..Len(cands) : cands[j].cpu_percent <= cands[i].cpu_percent
                    /\ \A j \in 1..(i - 1) : cands[j].cpu_percent < cands[i].cpu_percent
         IN  <<cands[i]>>

\* discover_all_processes_single_pass, lines 114-175
discover_all_processes_single_pass(table, my_pid) ==
    LET current_user == CurrentUser(table, my_pid)
        acc == fast_loop(process_iter(table), 1,
                         [results |-> [c \in Categories |-> << >>],
                          top_cpu_candidates |-> << >>],
                         current_user, my_pid)
    IN  [results |-> acc.results, top_cpu |-> top_of(acc.top_cpu_candidates)]

\* the loop body testing proc.info['name'] itself, not its lower(), against
\* SKIP_ALWAYS
other_step_raw_name(acc, proc, known, current_user) ==
    LET name == lower(proc.name)
    IN  IF proc.pid \in known THEN acc
        ELSE IF Len(name) = 0 \/ InSkipAlways(proc.name) THEN acc
        ELSE IF OtherIdentity(current_user, proc.username) THEN acc
        ELSE IF Raises(proc) THEN acc
        ELSE Append(acc, [pid |-> proc.pid, name |-> proc.name,
                          threads |-> proc.num_threads])

\* one iteration of the loop of lines 187-209
other_step(acc, proc, known, current_user) ==
    LET name == lower(proc.name)
    IN  IF proc.pid \in known THEN acc
        ELSE IF Len(name) = 0 \/ InSkipAlways(name) THEN acc
        ELSE IF OtherIdentity(current_user, proc.username) THEN acc
        ELSE IF Raises(proc) THEN acc
        ELSE Append(acc, [pid |-> proc.pid, name |-> proc.name,
                          threads |-> proc.num_threads])

\* the loop with its try around the whole iteration: the first process
\* that raises while being inspected ends the pass
RECURSIVE other_loop_abort_on_fault(_, _, _, _, _)
other_loop_abort_on_fault(procs, i, acc, known, current_user) ==
    IF i > Len(procs) THEN acc
    ELSE IF /\ procs[i].pid \notin known
            /\ Len(procs[i].name) # 0
            /\ ~InSkipAlways(lower(procs[i].name))
            /\ ~OtherIdentity(current_user, procs[i].username)
            /\ Raises(procs[i])
         THEN acc
         ELSE other_loop_abort_on_fault(procs, i + 1,
                  other_step(acc, procs[i], known, current_user),
                  known, current_user)

RECURSIVE other_loop(_, _, _, _, _)
other_loop(procs, i, acc, known, current_user) ==
    IF i > Len(procs) THEN acc
    ELSE other_loop(procs, i + 1, other_step(acc, procs[i], known, current_user),
                    known, current_user)

\* find_other_processes, lines 177-211
find_other_processes(table, known, my_pid) ==
    other_loop(process_iter(table), 1, << >>, known,
               CurrentUser(table, my_pid))

SeqPids(procs) == {procs[i].pid : i \in 1..Len(procs)}

\* all_pids of refresh_processes_sync, lines 494-508
all_pids(found) ==
    UNION {SeqPids(found.results[c]) : c \in Categories}
        \cup SeqPids(found.top_cpu)

(***************************************************************************)
(* set_affinity_with_debug, lines 213-253. A fault is what                 *)
(* p['proc'].cpu_affinity(cores) raises: its exception type and text, or   *)
(* type "ok" when the call returns. The result carries, beside the list    *)
(* the function returns, the calls it made (attempts) and the process      *)
(* table with the masks those calls set.                                   *)
(***************************************************************************)
NoFault == [type |-> "ok", text |-> ""]

\* psutil.ZombieProcess derives from psutil.NoSuchProcess
NoSuchProcessTypes == {"NoSuchProcess", "ZombieProcess"}
AccessDeniedTypes == {"AccessDenied"}
\* PermissionError derives from OSError
OSErrorTypes == {"OSError", "PermissionError"}

\* the except clauses with `except Exception` written first: every fault
\* is reported by its type name and text
ErrorText_generic_first(f) == <<f.type, ": ", f.text>>

\* the error text of each except clause, as the pieces of the f-string
ErrorText(f) ==
    IF f.type \in NoSuchProcessTypes THEN <<"Process no longer exists">>
    ELSE IF f.type \in AccessDeniedTypes
    THEN <<"Access denied - may need higher privileges or process is protected">>
    ELSE IF f.type \in OSErrorTypes THEN <<"OS Error: ", f.text>>
    ELSE <<f.type, ": ", f.text>>

\* list -> the mask the OS stores
CoreSet(cores) == {cores[i] : i \in 1..Len(cores)}

\* one iteration of the loop of lines 216-252
apply_step(acc, p, cores, f) ==
    [results  |-> Append(acc.results,
                         [pid |-> p.pid, name |-> p.name,
                          success |-> (f.type = "ok"),
                          error |-> IF f.type = "ok" THEN NoneStr ELSE ErrorText(f)]),
     attempts |-> Append(acc.attempts, p.pid),
     table    |-> IF f.type = "ok"
                  THEN [acc.table EXCEPT ![p.pid].cores = CoreSet(cores)]
                  ELSE acc.table]

RECURSIVE apply_loop(_, _, _, _, _)
apply_loop(procs, i, acc, cores, fault_of) ==
    IF i > Len(procs) THEN acc
    ELSE apply_loop(procs, i + 1,
                    apply_step(acc, procs[i], cores, fault_of[procs[i].pid]),
                    cores, fault_of)

\* the loop leaving at the first exception (a try around the whole loop)
RECURSIVE apply_loop_abort(_, _, _, _, _)
apply_loop_abort(procs, i, acc, cores, fault_of) ==
    IF i > Len(procs) THEN acc
    ELSE IF fault_of[procs[i].pid].type # "ok"
         THEN apply_step(acc, procs[i], cores, fault_of[procs[i].pid])
         ELSE apply_loop_abort(procs, i + 1,
                    apply_step(acc, procs[i], cores, fault_of[procs[i].pid]),
                    cores, fault_of)

set_affinity_abort_on_error(procs, cores, fault_of, table) ==
    apply_loop_abort(procs, 1,
               [results |-> << >>, attempts |-> << >>, table |-> table],
               cores, fault_of)

set_affinity_with_debug(procs, cores, fault_of, table) ==
    apply_loop(procs, 1,
               [results |-> << >>, attempts |-> << >>, table |-> table],
               cores, fault_of)

(***************************************************************************)
(* Values of the variables a specification does not use.                   *)
(***************************************************************************)
NoHw == [logical |-> 0, physical |-> 0]
NoFast == [ran |-> FALSE, results |-> [c \in Categories |-> << >>], top_cpu |-> << >>]
NoFull == [ran |-> FALSE, procs |-> << >>]
NoCall == [procs |-> << >>, cores |-> << >>, fault_of |-> << >>]
NoRet == [done |-> FALSE, results |-> << >>, attempts |-> << >>]
NoSelector == [start |-> 0, end |-> 0, drag_anchor |-> 0, state |-> "none"]
NoLabel == [shown |-> FALSE, count |-> 0, threads |-> 0]
NoLog == [calls |-> 0, outcome |-> "none", warning |-> "none",
          all_results |-> << >>, errors |-> << >>, attempts |-> << >>]

NoProposal == [cores |-> << >>, threads |-> 0]
NoVerdict == [ran |-> FALSE, valid |-> TRUE, warning |-> "none"]

TopoIdle == hw = NoHw /\ cpu_info = NoInfo
ValidIdle == proposal = NoProposal /\ verdict = NoVerdict
ClassIdle == fast = NoFast /\ full = NoFull
ApplyIdle == call = NoCall /\ ret = NoRet
AppIdle ==
    /\ active_groups = << >> /\ known_pids = {} /\ other_procs = << >>
    /\ other_discovery_done = FALSE /\ other_selector = NoSelector
    /\ apply_btn = "disabled" /\ status_label = "" /\ other_label = NoLabel
    /\ workers = << >> /\ after_queue = 0 /\ apply_log = NoLog
    /\ drags = 0

(***************************************************************************)
(* CoreSelector, lines 259-430. A selector is its fields total_cores,      *)
(* start, end, drag_anchor and the canvas state option.                    *)
(***************************************************************************)
NoneAnchor == -1
core_width == 32
core_spacing == 4
padding_x == 12

\* CoreSelector.__init__, lines 262-296
CoreSelector(info) ==
    [total_cores |-> info.logical, start |-> 0, end |-> info.logical - 1,
     drag_anchor |-> NoneAnchor, state |-> "normal"]

\* CoreSelector.get_core_at_x, lines 316-323
get_core_at_x(sel, x) ==
    LET core_x == x - padding_x
    IN  IF core_x < 0 THEN 0
        ELSE LET step == core_width + core_spacing
                 idx  == core_x \div step
             IN  Max(0, Min(idx, sel.total_cores - 1))

\* CoreSelector.on_mouse_down, lines 325-331
on_mouse_down(sel, x) ==
    LET core == get_core_at_x(sel, x)
    IN  [sel EXCEPT !.drag_anchor = core, !.start = core, !.end = core]

\* CoreSelector.on_mouse_move, lines 333-341
on_mouse_move(sel, x) ==
    IF sel.drag_anchor = NoneAnchor THEN sel
    ELSE LET core == get_core_at_x(sel, x)
         IN  [sel EXCEPT !.start = Min(sel.drag_anchor, core),
                         !.end = Max(sel.drag_anchor, core)]

\* CoreSelector.on_mouse_up, lines 343-345
on_mouse_up(sel) == [sel EXCEPT !.drag_anchor = NoneAnchor]

\* CoreSelector.get_cores, lines 420-422: list(range(start, end + 1))
get_cores(sel) == [i \in 1..(sel.end - sel.start + 1) |-> sel.start + i - 1]

\* set_range without the swap of lines 428-429
set_range_no_swap(sel, start, end) ==
    [sel EXCEPT !.start = Max(0, Min(start, sel.total_cores - 1)),
                !.end = Max(0, Min(end, sel.total_cores - 1))]

\* CoreSelector.set_range, lines 424-430
set_range(sel, start, end) ==
    LET s == Max(0, Min(start, sel.total_cores - 1))
        e == Max(0, Min(end, sel.total_cores - 1))
    IN  IF s > e
        THEN [sel EXCEPT !.start = e, !.end = s]
        ELSE [sel EXCEPT !.start = s, !.end = e]

\* min(cores), max(cores) of a non-empty list
ListMin(cores) == CHOOSE m \in CoreSet(cores) : \A c \in CoreSet(cores) : m <= c
ListMax(cores) == CHOOSE m \in CoreSet(cores) : \A c \in CoreSet(cores) : m >= c

\* sum(p['threads'] for p in procs)
RECURSIVE sum_threads(_, _)
sum_threads(procs, i) ==
    IF i > Len(procs) THEN 0 ELSE procs[i].threads + sum_threads(procs, i + 1)

(***************************************************************************)
(* AffinityManagerApp.validate_other_affinity, lines 712-733. The result   *)
(* is (valid, which warning text).                                         *)
(***************************************************************************)
\* the validator with all() written for any(): a range is taken to have a
\* P-core only when every core of it is one
validate_other_affinity_all_p(cores, threads, info) ==
    IF Len(cores) = 0 THEN [valid |-> TRUE, warning |-> "none"]
    ELSE LET has_p_core ==
                 \A i \in 1..Len(cores) : info.core_types[cores[i] + 1] = "P"
         IN  IF ~has_p_core /\ info.p_count > 0
             THEN [valid |-> FALSE, warning |-> "only E-cores"]
             ELSE IF threads > MAX_THREADS_PER_CORE * Len(cores)
                  THEN [valid |-> FALSE, warning |-> "thread density"]
                  ELSE [valid |-> TRUE, warning |-> "none"]

validate_other_affinity(cores, threads, info) ==
    IF Len(cores) = 0 THEN [valid |-> TRUE, warning |-> "none"]
    ELSE LET has_p_core ==
                 \E i \in 1..Len(cores) : info.core_types[cores[i] + 1] = "P"
         IN  IF ~has_p_core /\ info.p_count > 0
             THEN [valid |-> FALSE, warning |-> "only E-cores"]
             \* threads / len(cores) > MAX_THREADS_PER_CORE
             ELSE IF threads > MAX_THREADS_PER_CORE * Len(cores)
                  THEN [valid |-> FALSE, warning |-> "thread density"]
                  ELSE [valid |-> TRUE, warning |-> "none"]

(***************************************************************************)
(* AffinityManagerApp.refresh_processes_sync (lines 487-508) followed by   *)
(* build_selectors (lines 638-658): the groups, in the dict's insertion    *)
(* order, each with a fresh selector.                                      *)
(***************************************************************************)
TopName(proc_name) == <<"Top CPU (">> \o proc_name \o <<")">>

\* the loop without `if procs`: a category with no member gets a group
RECURSIVE category_groups_all(_, _, _)
category_groups_all(found, c, info) ==
    IF c > Len(KNOWN_PATTERNS) THEN << >>
    ELSE <<[name |-> <<KNOWN_PATTERNS[c].name>>,
            patterns |-> KNOWN_PATTERNS[c].patterns,
            procs |-> found.results[c],
            selector |-> CoreSelector(info)]>>
         \o category_groups_all(found, c + 1, info)

RECURSIVE category_groups(_, _, _)
category_groups(found, c, info) ==
    IF c > Len(KNOWN_PATTERNS) THEN << >>
    ELSE (IF Len(found.results[c]) > 0
          THEN <<[name |-> <<KNOWN_PATTERNS[c].name>>,
                  patterns |-> KNOWN_PATTERNS[c].patterns,
                  procs |-> found.results[c],
                  selector |-> CoreSelector(info)]>>
          ELSE << >>) \o category_groups(found, c + 1, info)

refresh_processes_sync(table, my_pid, info) ==
    LET found == discover_all_processes_single_pass(table, my_pid)
        top   == IF Len(found.top_cpu) > 0
                 THEN <<[name |-> TopName(found.top_cpu[1].name),
                         patterns |-> << >>,
                         procs |-> found.top_cpu,
                         selector |-> CoreSelector(info)]>>
                 ELSE << >>
    IN  [active_groups |-> category_groups(found, 1, info) \o top,
         known_pids |-> all_pids(found)]

(***************************************************************************)
(* AffinityManagerApp.on_apply, lines 735-792. A stored process handle     *)
(* fails as the process's status says.                                     *)
(***************************************************************************)
HandleFault(proc) ==
    IF proc.status = "running" THEN NoFault
    ELSE IF proc.status = "denied"
         THEN [type |-> "AccessDenied", text |-> "access denied"]
         ELSE [type |-> "NoSuchProcess", text |-> "process no longer exists"]

HandleFaults(table) == [pid \in 1..Len(table) |-> HandleFault(table[pid])]

\* lines 751-757 and 772-776: the summary line and the error lines
apply_report(acc, name, cores, r) ==
    [table       |-> r.table,
     all_results |-> Append(acc.all_results,
                        [name |-> name,
                         ok |-> Cardinality({i \in 1..Len(r.results) : r.results[i].success}),
                         lo |-> ListMin(cores), hi |-> ListMax(cores)]),
     errors      |-> acc.errors \o SelectSeq(r.results, LAMBDA x : ~x.success),
     attempts    |-> acc.attempts \o r.attempts]

\* the loop body with the guard `if not procs` alone: a group with an
\* empty core list is handed to set_affinity_with_debug
apply_group_step_unguarded(acc, g) ==
    LET cores == get_cores(g.selector)
        r     == set_affinity_with_debug(g.procs, cores,
                                         HandleFaults(acc.table), acc.table)
    IN  IF Len(g.procs) = 0 THEN acc
        ELSE IF Len(cores) = 0
        THEN [table       |-> r.table,
              all_results |-> acc.all_results,
              errors      |-> acc.errors \o SelectSeq(r.results, LAMBDA x : ~x.success),
              attempts    |-> acc.attempts \o r.attempts]
        ELSE apply_report(acc, g.name, cores, r)

\* one iteration of the loop of lines 744-757
apply_group_step(acc, g) ==
    LET cores == get_cores(g.selector)
    IN  IF Len(g.procs) = 0 \/ Len(cores) = 0 THEN acc
        ELSE apply_report(acc, g.name, cores,
                 set_affinity_with_debug(g.procs, cores,
                                         HandleFaults(acc.table), acc.table))

RECURSIVE apply_groups(_, _, _)
apply_groups(groups, i, acc) ==
    IF i > Len(groups) THEN acc
    ELSE apply_groups(groups, i + 1, apply_group_step(acc, groups[i]))

\* The result is the process table after the call, the text set on the
\* status label ("" when it is left alone) and the log: which message box
\* ended the call (outcome), the warning the validator gave, the summary
\* and error lines, and the pids cpu_affinity(cores) was called on.
on_apply(groups, others, osel, done, info, table, response) ==
    LET start == [table |-> table, all_results |-> << >>, errors |-> << >>,
                  attempts |-> << >>]
        \* lines 743-757
        g     == apply_groups(groups, 1, start)
        \* lines 760-764
        cores == get_cores(osel)
        v     == IF Len(others) > 0
                 THEN validate_other_affinity(cores, sum_threads(others, 1), info)
                 ELSE [valid |-> TRUE, warning |-> "none"]
        \* lines 770-776
        o     == IF Len(others) > 0 /\ Len(cores) > 0
                 THEN apply_report(g, <<"Other">>, cores,
                          set_affinity_with_debug(others, cores,
                                                  HandleFaults(g.table), g.table))
                 ELSE g
    IN  IF ~done
        THEN \* lines 736-738
             [table |-> table, status |-> "",
              log |-> [outcome |-> "Not Ready", warning |-> "none",
                       all_results |-> << >>, errors |-> << >>, attempts |-> << >>]]
        ELSE IF ~v.valid /\ ~response
        THEN \* lines 765-768: the groups have been applied, the call returns
             [table |-> g.table, status |-> "",
              log |-> [outcome |-> "cancelled", warning |-> v.warning,
                       all_results |-> g.all_results, errors |-> g.errors,
                       attempts |-> g.attempts]]
        ELSE \* lines 778-792
             [table |-> o.table,
              status |-> IF Len(o.all_results) = 0 THEN "" ELSE "Applied!",
              log |-> [outcome |-> IF Len(o.all_results) = 0 THEN "No processes to update!"
                                   ELSE IF Len(o.errors) > 0 THEN "Partial Success"
                                   ELSE "Success",
                       warning |-> v.warning,
                       all_results |-> o.all_results, errors |-> o.errors,
                       attempts |-> o.attempts]]

\* update_other_label, lines 670-690: an "Other:" label that exists is
\* rewritten; one is created only when other_procs is not empty
update_other_label(label, others) ==
    IF label.shown \/ Len(others) > 0
    THEN [shown |-> TRUE, count |-> Len(others), threads |-> sum_threads(others, 1)]
    ELSE label

(***************************************************************************)
(* SpecTopo: the counts the host reports, then one call of get_cpu_info.   *)
(* psutil reports logical >= 1 and 0 <= physical <= logical (0 stands for  *)
(* an undetermined physical count, which Python treats as false).          *)
(***************************************************************************)
TopoInit ==
    /\ hw \in {[logical |-> l, physical |-> p] :
                  l \in 1..MaxLogical, p \in 0..MaxLogical}
    /\ hw.physical <= hw.logical
    /\ cpu_info = NoInfo
    /\ os = << >>
    /\ ClassIdle /\ ApplyIdle /\ AppIdle /\ ValidIdle

DetectTopology ==
    /\ cpu_info = NoInfo
    /\ cpu_info' = get_cpu_info(hw.logical, hw.physical)
    /\ UNCHANGED <<hw, os, classVars, applyVars, appVars, validVars>>

TopoNext == DetectTopology

SpecTopo == TopoInit /\ [][TopoNext]_vars

Detected == cpu_info # NoInfo

CoreLabel(info, i) == info.core_types[i + 1]

\* C8: with L > P and P >= 10 detection returns p_cores = L-P,
\* e_cores = P-p_cores, p_count = 2*p_cores, e_count = e_cores, and core i
\* is labelled P exactly when i < p_count; L=24,P=16 gives 16/8 and
\* L=20,P=12 gives 16/4.
C8_HybridBranch ==
    (Detected /\ hw.logical > hw.physical /\ hw.physical >= 10) =>
        /\ cpu_info.p_cores = hw.logical - hw.physical
        /\ cpu_info.e_cores = hw.physical - (hw.logical - hw.physical)
        /\ cpu_info.p_count = 2 * (hw.logical - hw.physical)
        /\ cpu_info.e_count = hw.physical - (hw.logical - hw.physical)
        /\ \A i \in 0..(hw.logical - 1) :
              (CoreLabel(cpu_info, i) = "P") <=> (i < 2 * (hw.logical - hw.physical))
        /\ \A i \in 0..(hw.logical - 1) :
              (CoreLabel(cpu_info, i) = "E") <=> (i >= 2 * (hw.logical - hw.physical))
        /\ (hw.logical = 24 /\ hw.physical = 16) =>
              /\ cpu_info.p_count = 16 /\ cpu_info.e_count = 8
              /\ \A i \in 0..15 : CoreLabel(cpu_info, i) = "P"
              /\ \A i \in 16..23 : CoreLabel(cpu_info, i) = "E"
        /\ (hw.logical = 20 /\ hw.physical = 12) =>
              cpu_info.p_count = 16 /\ cpu_info.e_count = 4

C8_Witness ==
    /\ Detected /\ hw.logical = 24 /\ hw.physical = 16
    /\ cpu_info.p_count = 16 /\ cpu_info.e_count = 8

\* C9: with L = P, or L > P and P < 10 (P = 0 included), detection reports
\* p_cores = P, e_cores = 0, p_count = L, e_count = 0 and labels every core
\* P; and on every input threads_per_core = max(1, floor(L/P)), 1 if P = 0.
C9_HomogeneousBranch ==
    Detected =>
        /\ (hw.logical = hw.physical
              \/ (hw.logical > hw.physical /\ hw.physical < 10)) =>
              /\ cpu_info.p_cores = hw.physical
              /\ cpu_info.e_cores = 0
              /\ cpu_info.p_count = hw.logical
              /\ cpu_info.e_count = 0
              /\ \A i \in 0..(hw.logical - 1) : CoreLabel(cpu_info, i) = "P"
        /\ hw.physical = 0 => cpu_info.threads_per_core = 1
        /\ hw.physical > 0 =>
              \E q \in 0..hw.logical :
                 /\ q * hw.physical <= hw.logical
                 /\ hw.logical < (q + 1) * hw.physical
                 /\ cpu_info.threads_per_core = (IF q >= 1 THEN q ELSE 1)

C9_Witness ==
    /\ Detected /\ hw.logical = 16 /\ hw.physical = 8
    /\ cpu_info.p_count = 16 /\ cpu_info.threads_per_core = 2

\* C10: the core-type list has exactly logical_count entries, and
\* e_core_count > 0 only when the heterogeneous branch (L > P and P >= 10)
\* fired.
C10_TopologyInvariant ==
    Detected =>
        /\ Len(cpu_info.core_types) = hw.logical
        /\ cpu_info.logical = hw.logical
        /\ cpu_info.e_count > 0 =>
              (hw.logical > hw.physical /\ hw.physical >= 10)

C10_Witness ==
    /\ Detected /\ cpu_info.e_count > 0
    /\ Len(cpu_info.core_types) = hw.logical

\* number of cores of info labelled with type t
LabelCount(info, t) ==
    Cardinality({i \in 1..Len(info.core_types) : info.core_types[i] = t})

\* C28: for every L >= 1 and 0 <= P <= L the detected topology is
\* internally consistent: e_cores >= 0, e_count >= 0, p_count <= L,
\* p_count + e_count = L, and the numbers of cores labelled P and E are
\* p_count and e_count (L > 2*P with P >= 10 included).
C28_TopologyConsistent ==
    Detected =>
        /\ cpu_info.e_cores >= 0
        /\ cpu_info.e_count >= 0
        /\ cpu_info.p_count <= hw.logical
        /\ cpu_info.p_count + cpu_info.e_count = hw.logical
        /\ LabelCount(cpu_info, "P") = cpu_info.p_count
        /\ LabelCount(cpu_info, "E") = cpu_info.e_count


(***************************************************************************)
(* SpecClass: one process snapshot, the fast pass over it                  *)
(* (discover_all_processes_single_pass) and then the full pass             *)
(* (find_other_processes) with the known pids of the fast pass.            *)
(***************************************************************************)
MaxSnap == 2

N_Discord == <<"D","i","s","c","o","r","d",".","e","x","e">>
N_chrome == <<"c","h","r","o","m","e",".","e","x","e">>
N_javaw == <<"j","a","v","a","w",".","e","x","e">>
N_OBS == <<"O","B","S","6","4",".","e","x","e">>
N_dwm == <<"d","w","m",".","e","x","e">>
N_DWM == <<"D","W","M",".","E","X","E">>
N_JavaDiscord == <<"J","a","v","a","D","i","s","c","o","r","d">>
N_discord_obs == <<"d","i","s","c","o","r","d","-","o","b","s","3","2">>
N_notepad == <<"n","o","t","e","p","a","d",".","e","x","e">>
N_python == <<"p","y","t","h","o","n",".","e","x","e">>

U_al == <<"a","l">>
U_AL == <<"A","L">>
U_bo == <<"b","o">>

AllCores == {0, 1}

Profile(n, u, c, st) ==
    [name |-> n, username |-> u, num_threads |-> 4, cpu_percent |-> c, status |-> st]

ClassNames == {N_javaw, N_Discord, N_JavaDiscord, N_discord_obs, N_OBS,
               N_chrome, N_dwm, NoneStr}

Profiles ==
    {Profile(n, U_al, 20, "running") : n \in ClassNames}
    \cup {Profile(N_chrome, u, c, "running") :
             u \in {U_AL, U_bo, NoneStr}, c \in {5, 20, 30}}
    \cup {Profile(n, U_al, 30, st) :
             n \in {N_chrome, N_Discord}, st \in {"exiting", "denied"}}
    \cup {Profile(n, U_bo, 30, "running") : n \in {N_dwm, N_Discord}}
    \cup {Profile(N_DWM, U_al, 30, "running")}
    \cup {Profile(N_notepad, U_al, 30, "running")}

SelfProfiles ==
    {Profile(n, u, 40, "running") :
        n \in {N_python, N_Discord, N_chrome}, u \in {U_al, NoneStr}}

MakeProc(pid, pr) ==
    [pid |-> pid, name |-> pr.name, username |-> pr.username,
     num_threads |-> pr.num_threads, cpu_percent |-> pr.cpu_percent,
     status |-> pr.status, cores |-> AllCores]

MakeTable(self, others) ==
    [i \in 1..(Len(others) + 1) |->
        IF i = MyPid THEN MakeProc(i, self) ELSE MakeProc(i, others[i - 1])]

ClassHw == [logical |-> 2, physical |-> 2]

ClassInit ==
    /\ os \in {MakeTable(self, others) :
                  self \in SelfProfiles,
                  others \in UNION {[1..n -> Profiles] : n \in 1..MaxSnap}}
    /\ hw = ClassHw
    /\ cpu_info = get_cpu_info(ClassHw.logical, ClassHw.physical)
    /\ fast = NoFast
    /\ full = NoFull
    /\ ApplyIdle /\ AppIdle /\ ValidIdle

\* refresh_processes_sync (lines 487-508) with build_selectors; fast keeps
\* what its call of discover_all_processes_single_pass returned
FastPass ==
    /\ ~fast.ran
    /\ fast' = [ran |-> TRUE] @@ discover_all_processes_single_pass(os, MyPid)
    /\ LET r == refresh_processes_sync(os, MyPid, cpu_info)
       IN  /\ active_groups' = r.active_groups
           /\ known_pids' = r.known_pids
    /\ UNCHANGED <<os, full, topoVars, applyVars, other_procs,
                   other_discovery_done, other_selector, apply_btn,
                   status_label, other_label, workers, after_queue,
                   apply_log, drags, validVars>>

\* find_other_processes(self.known_pids), line 523
FullPass ==
    /\ fast.ran /\ ~full.ran
    /\ full' = [ran |-> TRUE,
                procs |-> find_other_processes(os, known_pids, MyPid)]
    /\ UNCHANGED <<os, fast, topoVars, applyVars, appVars, validVars>>

ClassNext == FastPass \/ FullPass

SpecClass == ClassInit /\ [][ClassNext]_vars

\* a pattern of category c is a substring of the (lowercased) name nm
HasPattern(c, nm) ==
    \E j \in 1..Len(KNOWN_PATTERNS[c].patterns) :
        LET p == KNOWN_PATTERNS[c].patterns[j]
        IN  \E k \in 1..Len(nm) :
               /\ k + Len(p) - 1 <= Len(nm)
               /\ SubSeq(nm, k, k + Len(p) - 1) = p

\* the processes the fast pass classifies: listed, named, not the caller,
\* and inspectable
Scanned(p) == p.status = "running" /\ Len(p.name) > 0 /\ p.pid # MyPid

\* C3: the classifier puts each scanned process in the first category, in
\* declaration order, one of whose patterns is a substring of the
\* lowercased name; a process matching patterns of two categories is a
\* member of the earlier-declared one only.
C3_FirstMatchWins ==
    fast.ran =>
        \A i \in 1..Len(os) : Scanned(os[i]) =>
            \A c \in Categories :
                (os[i].pid \in SeqPids(fast.results[c]))
                    <=> /\ HasPattern(c, lower(os[i].name))
                        /\ \A d \in 1..(c - 1) : ~HasPattern(d, lower(os[i].name))

C3_Witness ==
    /\ fast.ran
    /\ \E i \in 1..Len(os) :
          /\ Scanned(os[i])
          /\ os[i].name = N_JavaDiscord
          /\ HasPattern(1, lower(os[i].name)) /\ HasPattern(2, lower(os[i].name))
          /\ os[i].pid \in SeqPids(fast.results[1])
          /\ os[i].pid \notin SeqPids(fast.results[2])


\* the caller's identity is resolvable
CallerResolvable == Len(os[MyPid].username) > 0

\* the name matches a pattern of some category
Matched(p) == \E c \in Categories : HasPattern(c, lower(p.name))

\* the lowercased name is in the fixed exclusion set
Excluded(p) == lower(p.name) \in SKIP_ALWAYS

\* the owner is resolvable and is not the (resolvable) caller
OtherOwner(p) ==
    /\ CallerResolvable
    /\ Len(p.username) > 0
    /\ lower(p.username) # lower(os[MyPid].username)

\* the synthetic top-CPU groups of active_groups
TopGroups ==
    {g \in 1..Len(active_groups) : active_groups[g].name[1] = "Top CPU ("}

\* pid is the top-CPU pick of the fast pass
IsTopPick(pid) ==
    \/ pid \in SeqPids(fast.top_cpu)
    \/ \E g \in TopGroups : pid \in SeqPids(active_groups[g].procs)

\* C11: after the fast pass and after the full pass the caller's own pid
\* is in no named group, is not the top-CPU pick and is not in the
\* catch-all set, whatever the caller's process name is.
C11_OwnPidExcluded ==
    /\ fast.ran =>
          /\ \A c \in Categories : MyPid \notin SeqPids(fast.results[c])
          /\ \A g \in 1..Len(active_groups) :
                MyPid \notin SeqPids(active_groups[g].procs)
          /\ ~IsTopPick(MyPid)
    /\ full.ran => MyPid \notin SeqPids(full.procs)

\* C12: with the caller's identity resolvable, a process whose owner is
\* resolvable and differs case-insensitively from the caller's is never
\* the top-CPU pick and never in the catch-all set.
C12_ForeignOwnerExcluded ==
    \A i \in 1..Len(os) : OtherOwner(os[i]) =>
        /\ fast.ran => ~IsTopPick(os[i].pid)
        /\ full.ran => os[i].pid \notin SeqPids(full.procs)

C12_Witness ==
    /\ fast.ran /\ full.ran
    /\ os[MyPid].username = U_al
    /\ \E i, j \in 1..Len(os) :
          /\ Scanned(os[i]) /\ ~Matched(os[i]) /\ ~Excluded(os[i])
          /\ os[i].username = U_bo /\ os[i].cpu_percent = 30
          /\ ~IsTopPick(os[i].pid)
          /\ os[i].pid \notin SeqPids(full.procs)
          /\ os[j].username = U_AL
          /\ os[j].pid \in SeqPids(full.procs)

\* C13: with the caller's identity resolvable, every member of the
\* catch-all set and the top-CPU pick has an owner identity equal to the
\* caller's; with it unresolvable, ownership excludes no process: every
\* scanned, unmatched, non-excluded process is the pick or in the
\* catch-all set.
C13_OnlySameIdentity ==
    /\ CallerResolvable =>
          \A i \in 1..Len(os) :
             ((fast.ran /\ IsTopPick(os[i].pid))
                 \/ (full.ran /\ os[i].pid \in SeqPids(full.procs)))
             => /\ Len(os[i].username) > 0
                /\ lower(os[i].username) = lower(os[MyPid].username)
    /\ (~CallerResolvable /\ full.ran) =>
          \A i \in 1..Len(os) :
             (Scanned(os[i]) /\ ~Matched(os[i]) /\ ~Excluded(os[i]))
             => (IsTopPick(os[i].pid) \/ os[i].pid \in SeqPids(full.procs))

\* C14: a process whose lowercased name is in SKIP_ALWAYS is never the
\* top-CPU pick and never in the catch-all set, whoever owns it and
\* whether or not the caller's identity is resolvable.
C14_SkipAlwaysExcluded ==
    \A i \in 1..Len(os) : Excluded(os[i]) =>
        /\ fast.ran => ~IsTopPick(os[i].pid)
        /\ full.ran => os[i].pid \notin SeqPids(full.procs)

C14_Witness ==
    /\ fast.ran /\ full.ran
    /\ \E i, j \in 1..Len(os) :
          /\ os[i].name = N_DWM /\ Scanned(os[i]) /\ os[i].cpu_percent = 30
          /\ os[j].name = N_dwm /\ Scanned(os[j]) /\ os[j].username = U_bo
          /\ ~CallerResolvable
          /\ fast.top_cpu = << >>
          /\ os[i].pid \notin SeqPids(full.procs)
          /\ os[j].pid \notin SeqPids(full.procs)

\* the candidates of the top-CPU pick: scanned, unmatched, not excluded,
\* not another identity's
Candidate(p) ==
    Scanned(p) /\ ~Matched(p) /\ ~Excluded(p) /\ ~OtherOwner(p)

\* the candidates whose cpu_percent is above 0.5 (5 tenths)
HotCandidates ==
    {i \in 1..Len(os) : Candidate(os[i]) /\ os[i].cpu_percent > 5}

\* C15: after a fast pass, if some candidate has cpu_percent > 0.5 there
\* is exactly one top-CPU group, named after its single member, whose
\* cpu_percent is maximal among the candidates and which is not in the
\* catch-all set of the following full pass; with no candidate above 0.5
\* there is no top-CPU group.
C15_TopCpuPick ==
    fast.ran =>
        /\ HotCandidates # {} =>
              /\ Cardinality(TopGroups) = 1
              /\ \A g \in TopGroups :
                    /\ Len(active_groups[g].procs) = 1
                    /\ LET m == active_groups[g].procs[1]
                       IN  /\ m.pid \in HotCandidates
                           /\ m.cpu_percent = os[m.pid].cpu_percent
                           /\ \A j \in HotCandidates :
                                 os[j].cpu_percent <= m.cpu_percent
                           /\ active_groups[g].name
                                 = <<"Top CPU (">> \o os[m.pid].name \o <<")">>
                           /\ full.ran => m.pid \notin SeqPids(full.procs)
        /\ HotCandidates = {} => TopGroups = {}

C15_Witness ==
    /\ fast.ran /\ full.ran
    /\ \E i, j \in HotCandidates :
          /\ os[i].cpu_percent = 20 /\ os[j].cpu_percent = 30
          /\ i < j
          /\ Cardinality(TopGroups) = 1
          /\ \A g \in TopGroups : SeqPids(active_groups[g].procs) = {j}
          /\ j \notin SeqPids(full.procs)
          /\ i \in SeqPids(full.procs)


\* the process raises when it is inspected
Uninspectable(p) == p.status \in {"exiting", "denied"}

\* C24: in the fast pass and in the full pass a process that vanishes or
\* denies access while being inspected is left out, the pass completes,
\* and every other inspectable, eligible process is still reported.
C24_ScanFaultsSkipped ==
    /\ fast.ran =>
          /\ \A i \in 1..Len(os) :
                /\ Uninspectable(os[i]) =>
                      /\ \A c \in Categories :
                            os[i].pid \notin SeqPids(fast.results[c])
                      /\ ~IsTopPick(os[i].pid)
                /\ (Scanned(os[i]) /\ Matched(os[i])) =>
                      \E c \in Categories :
                         os[i].pid \in SeqPids(fast.results[c])
          /\ HotCandidates # {} => Len(fast.top_cpu) = 1
    /\ full.ran =>
          \A i \in 1..Len(os) :
             /\ Uninspectable(os[i]) => os[i].pid \notin SeqPids(full.procs)
             /\ (/\ os[i].status = "running"
                 /\ Len(os[i].name) > 0
                 /\ ~Excluded(os[i])
                 /\ ~OtherOwner(os[i])
                 /\ os[i].pid \notin known_pids)
                => os[i].pid \in SeqPids(full.procs)

C24_Witness ==
    /\ fast.ran /\ full.ran
    /\ Len(os) = 3
    /\ os[2].status = "denied" /\ os[2].name = N_chrome
    /\ os[3].status = "running" /\ os[3].name = N_chrome
    /\ os[3].cpu_percent = 5
    /\ os[2].pid \notin SeqPids(full.procs)
    /\ os[3].pid \in SeqPids(full.procs)

\* C31: membership in a named category depends only on the process name:
\* a scanned process (not the caller) whose lowercased name contains a
\* pattern of a category is placed in a category it matches whoever owns
\* it and whether or not its name is in the exclusion set, and two scanned
\* processes of the same lowercased name are members of the same
\* categories; the ownership and exclusion filters act on the top-CPU
\* pick and the catch-all set only.
C31_CategoryByNameOnly ==
    fast.ran =>
        /\ \A i \in 1..Len(os) :
              (Scanned(os[i]) /\ Matched(os[i])) =>
                 /\ \E c \in Categories :
                       /\ HasPattern(c, lower(os[i].name))
                       /\ os[i].pid \in SeqPids(fast.results[c])
                 /\ os[i].pid \in known_pids
                 /\ ~IsTopPick(os[i].pid)
                 /\ full.ran => os[i].pid \notin SeqPids(full.procs)
        /\ \A i, j \in 1..Len(os) :
              (/\ Scanned(os[i]) /\ Scanned(os[j])
               /\ lower(os[i].name) = lower(os[j].name))
              => \A c \in Categories :
                    (os[i].pid \in SeqPids(fast.results[c]))
                       <=> (os[j].pid \in SeqPids(fast.results[c]))

C31_Witness ==
    /\ fast.ran /\ full.ran
    /\ CallerResolvable
    /\ Len(os) = 3
    /\ os[2].name = N_Discord /\ os[3].name = N_Discord
    /\ Scanned(os[2]) /\ Scanned(os[3])
    /\ OtherOwner(os[2]) /\ ~OtherOwner(os[3])
    /\ SeqPids(fast.results[2]) = {2, 3}
    /\ 2 \in known_pids
    /\ 2 \notin SeqPids(full.procs)

\* category c has a materialized group
HasGroup(c) ==
    \E g \in 1..Len(active_groups) :
        active_groups[g].name = <<KNOWN_PATTERNS[c].name>>

\* C26: after a fast pass the named groups are exactly the categories
\* with at least one member, each once and with its members; a category
\* without members has no group, hence no selector.
C26_GroupsAreRunningCategories ==
    fast.ran =>
        /\ \A c \in Categories :
              HasGroup(c) <=>
                 \E i \in 1..Len(os) :
                    /\ Scanned(os[i])
                    /\ HasPattern(c, lower(os[i].name))
                    /\ \A d \in 1..(c - 1) : ~HasPattern(d, lower(os[i].name))
        /\ \A g \in (1..Len(active_groups)) \ TopGroups :
              /\ Len(active_groups[g].procs) > 0
              /\ \E c \in Categories :
                    active_groups[g].name = <<KNOWN_PATTERNS[c].name>>
              /\ \A h \in (1..Len(active_groups)) \ {g} :
                    active_groups[h].name # active_groups[g].name

C26_Witness ==
    /\ fast.ran
    /\ HasGroup(2) /\ ~HasGroup(1) /\ ~HasGroup(3)
    /\ \E i \in 1..Len(os) :
          /\ os[i].name = N_Discord /\ os[i].status = "exiting"
    /\ Len(active_groups) = 1

(***************************************************************************)
(* SpecApply: one call of set_affinity_with_debug on a batch of distinct   *)
(* process records, with every pattern of per-process faults.              *)
(***************************************************************************)
MaxBatch == 3

Faults ==
    {NoFault,
     [type |-> "NoSuchProcess", text |-> "process no longer exists (pid=7)"],
     [type |-> "ZombieProcess", text |-> "PID still exists but it's a zombie (pid=7)"],
     [type |-> "AccessDenied", text |-> "(pid=7)"],
     [type |-> "OSError", text |-> "[WinError 87] The parameter is incorrect"],
     [type |-> "ValueError", text |-> "invalid CPU 64"]}

BatchTable ==
    [i \in 1..MaxBatch |-> MakeProc(i, Profile(N_chrome, U_al, 0, "running"))]

\* the sequences of distinct pids of BatchTable
Batches ==
    {b \in UNION {[1..n -> 1..MaxBatch] : n \in 0..MaxBatch} :
        \A i, j \in 1..Len(b) : i # j => b[i] # b[j]}

ApplyInit ==
    /\ os = BatchTable
    /\ call \in {[procs |-> [i \in 1..Len(b) |-> fast_proc_data(BatchTable[b[i]])],
                  cores |-> cs, fault_of |-> f] :
                    b \in Batches, cs \in {<<0>>, <<0, 1>>},
                    f \in [1..MaxBatch -> Faults]}
    /\ ret = NoRet
    /\ TopoIdle /\ ClassIdle /\ AppIdle /\ ValidIdle

CallSetAffinity ==
    /\ ~ret.done
    /\ LET r == set_affinity_with_debug(call.procs, call.cores, call.fault_of, os)
       IN  /\ ret' = [done |-> TRUE, results |-> r.results, attempts |-> r.attempts]
           /\ os' = r.table
    /\ UNCHANGED <<call, topoVars, classVars, appVars, validVars>>

ApplyNext == CallSetAffinity

SpecApply == ApplyInit /\ [][ApplyNext]_vars

Successes(results) == {i \in 1..Len(results) : results[i].success}
Failures(results) == {i \in 1..Len(results) : ~results[i].success}

\* C2: for every batch of N records and every pattern of faults, the
\* affinity set is attempted on each of the N processes exactly once, in
\* order, and N outcomes are returned (successes + failures = N), the i-th
\* being that of the i-th process: a failure never stops the later
\* attempts. With exactly one process gone and no other fault the result
\* is one "Process no longer exists" failure and N-1 successes.
C2_EveryProcessAttempted ==
    ret.done =>
        LET N == Len(call.procs)
        IN  /\ Len(ret.attempts) = N
            /\ \A i \in 1..N : ret.attempts[i] = call.procs[i].pid
            /\ \A i \in 1..N :
                  Cardinality({k \in 1..Len(ret.attempts) :
                                  ret.attempts[k] = call.procs[i].pid}) = 1
            /\ Len(ret.results) = N
            /\ Cardinality(Successes(ret.results))
                  + Cardinality(Failures(ret.results)) = N
            /\ \A i \in 1..N :
                  /\ ret.results[i].pid = call.procs[i].pid
                  /\ ret.results[i].success
                        <=> (call.fault_of[call.procs[i].pid].type = "ok")
            /\ (\E g \in 1..N :
                  /\ call.fault_of[call.procs[g].pid].type = "NoSuchProcess"
                  /\ \A i \in (1..N) \ {g} :
                        call.fault_of[call.procs[i].pid].type = "ok")
               => /\ Cardinality(Failures(ret.results)) = 1
                  /\ Cardinality(Successes(ret.results)) = N - 1
                  /\ \A i \in Failures(ret.results) :
                        ret.results[i].error = <<"Process no longer exists">>

C2_Witness ==
    /\ ret.done
    /\ Len(call.procs) = 3
    /\ call.fault_of[call.procs[1].pid].type = "NoSuchProcess"
    /\ call.fault_of[call.procs[2].pid].type = "ok"
    /\ call.fault_of[call.procs[3].pid].type = "ok"
    /\ Len(ret.results) = 3
    /\ ~ret.results[1].success
    /\ ret.results[2].success /\ ret.results[3].success
    /\ os[call.procs[3].pid].cores = CoreSet(call.cores)


\* C20: every outcome carries the pid and name of its process; a failed
\* one carries the one cause its fault determines: a vanished process
\* "Process no longer exists", a permission fault "Access denied ...", an
\* OS-level rejection "OS Error: " with the fault's text, any other fault
\* its type name with the fault's text unchanged; a successful one
\* carries no cause.
C20_FailureTaxonomy ==
    ret.done =>
        \A i \in 1..Len(ret.results) :
            LET f == call.fault_of[call.procs[i].pid]
                x == ret.results[i]
            IN  /\ x.pid = call.procs[i].pid
                /\ x.name = call.procs[i].name
                /\ x.success <=> f.type = "ok"
                /\ f.type = "ok" => x.error = NoneStr
                /\ f.type \in {"NoSuchProcess", "ZombieProcess"} =>
                      x.error = <<"Process no longer exists">>
                /\ f.type = "AccessDenied" =>
                      x.error = <<"Access denied - may need higher privileges or process is protected">>
                /\ f.type = "OSError" =>
                      x.error = <<"OS Error: ", f.text>>
                /\ f.type \notin {"ok", "NoSuchProcess", "ZombieProcess",
                                  "AccessDenied", "OSError"} =>
                      x.error = <<f.type, ": ", f.text>>

C20_Witness ==
    /\ ret.done
    /\ Len(call.procs) = 3
    /\ call.fault_of[call.procs[1].pid].type = "AccessDenied"
    /\ call.fault_of[call.procs[2].pid].type = "OSError"
    /\ call.fault_of[call.procs[3].pid].type = "ValueError"
    /\ ret.results[1].error[1]
          = "Access denied - may need higher privileges or process is protected"
    /\ ret.results[2].error
          = <<"OS Error: ", "[WinError 87] The parameter is incorrect">>
    /\ ret.results[3].error = <<"ValueError", ": ", "invalid CPU 64">>


(***************************************************************************)
(* SpecValid: a detected topology, a range chosen on a selector and an     *)
(* aggregate thread count, then one call of validate_other_affinity.       *)
(***************************************************************************)
MaxValLogical == 24

\* thread counts around the density limit of a range of n cores
ThreadCounts(n) ==
    {1, MAX_THREADS_PER_CORE * n, MAX_THREADS_PER_CORE * n + 1}

\* list(range(a, b + 1))
CoreRange(a, b) == [i \in 1..(b - a + 1) |-> a + i - 1]

ValidInit ==
    /\ hw \in {[logical |-> l, physical |-> ph] :
                  l \in 1..MaxValLogical, ph \in 0..MaxValLogical}
    /\ hw.physical <= hw.logical
    /\ cpu_info = get_cpu_info(hw.logical, hw.physical)
    /\ proposal \in {[cores |-> CoreRange(a, b), threads |-> t] :
                        a \in 0..(hw.logical - 1), b \in 0..(hw.logical - 1),
                        t \in UNION {ThreadCounts(n) : n \in 1..hw.logical}}
    /\ proposal.cores # << >>
    /\ proposal.threads \in ThreadCounts(Len(proposal.cores))
    /\ verdict = NoVerdict
    /\ os = << >>
    /\ ClassIdle /\ ApplyIdle /\ AppIdle

Validate ==
    /\ ~verdict.ran
    /\ verdict' = [ran |-> TRUE]
                      @@ validate_other_affinity(proposal.cores,
                                                 proposal.threads, cpu_info)
    /\ UNCHANGED <<hw, cpu_info, os, proposal, classVars, applyVars, appVars>>

ValidNext == Validate

SpecValid == ValidInit /\ [][ValidNext]_vars

\* the topology has a performance core; the proposed range has one; the
\* proposed range has an efficiency core
TopologyHasP ==
    \E i \in 0..(hw.logical - 1) : CoreLabel(cpu_info, i) = "P"
RangeHasP ==
    \E k \in 1..Len(proposal.cores) :
        CoreLabel(cpu_info, proposal.cores[k]) = "P"
RangeHasE ==
    \E k \in 1..Len(proposal.cores) :
        CoreLabel(cpu_info, proposal.cores[k]) = "E"

\* C16: for every topology and non-empty range the validator gives the
\* performance-starvation warning exactly when the topology has a
\* performance core and the range has none; a range with both P and E
\* cores is never flagged by the core-type check.
C16_CoreTypeCheck ==
    verdict.ran =>
        /\ (verdict.warning = "only E-cores") <=> (TopologyHasP /\ ~RangeHasP)
        /\ (RangeHasP /\ RangeHasE) => verdict.warning # "only E-cores"

C16_Witness ==
    /\ verdict.ran
    /\ hw.logical = 12 /\ hw.physical = 10
    /\ proposal.cores = <<4, 5>> /\ proposal.threads = 1
    /\ ~verdict.valid /\ verdict.warning = "only E-cores"

\* C17: for every non-empty range and thread count the validator gives
\* the thread-contention warning exactly when thread_count /
\* cores_in_range > 300, whether or not the range also fails the core-type
\* check.
C17_DensityCheck ==
    verdict.ran =>
        ((verdict.warning = "thread density")
            <=> (proposal.threads > 300 * Len(proposal.cores)))


(***************************************************************************)
(* Spec: the application. Init is the state __init__ leaves (lines         *)
(* 455-467): topology detected, the fast pass done, the GUI built with     *)
(* Apply disabled, the first discover() thread started. The steps are the  *)
(* handlers of the interactive context (each runs to completion on the Tk  *)
(* main loop), the statements of the discover() threads, and the           *)
(* environment: the operator's mouse, processes changing load or exiting.  *)
(***************************************************************************)
MaxScans == 2
MaxApplies == 1
MaxDrags == 1

AppHw == [logical |-> 2, physical |-> 2]

\* the processes of the application runs: the caller, one process of a
\* known category and one unknown process whose load varies
AppProc(pid, n, threads, cpu) ==
    [pid |-> pid, name |-> n, username |-> U_al, num_threads |-> threads,
     cpu_percent |-> cpu, status |-> "running",
     cores |-> 0..(AppHw.logical - 1)]

AppTables ==
    {<<AppProc(1, N_python, 10, 0), AppProc(2, N_Discord, 40, 0),
       AppProc(3, N_chrome, 400, c)>> : c \in {0, 20}}

Volatile == {3}     \* the processes whose cpu_percent changes
Mortal == {2}       \* the processes that may exit
CpuLevels == {0, 20}

NewWorker == [pc |-> "sleep", result |-> << >>]

\* start_async_other_discovery disables the canvas of the selector
Disabled(sel) == [sel EXCEPT !.state = "disabled"]

Init ==
    /\ hw = AppHw
    /\ cpu_info = get_cpu_info(AppHw.logical, AppHw.physical)
    /\ os \in AppTables
    /\ LET r == refresh_processes_sync(os, MyPid, get_cpu_info(AppHw.logical, AppHw.physical))
       IN  /\ active_groups = r.active_groups
           /\ known_pids = r.known_pids
    /\ other_procs = << >>
    /\ other_discovery_done = FALSE
    /\ other_selector = Disabled(CoreSelector(get_cpu_info(AppHw.logical, AppHw.physical)))
    /\ apply_btn = "disabled"
    /\ status_label = "Loading other processes..."
    /\ other_label = NoLabel
    /\ workers = <<NewWorker>>
    /\ after_queue = 0
    /\ apply_log = NoLog
    /\ drags = 0
    /\ ClassIdle /\ ApplyIdle /\ ValidIdle

\* the mouse button is held down on a selector
Dragging ==
    \/ other_selector.drag_anchor # NoneAnchor
    \/ \E i \in 1..Len(active_groups) :
          active_groups[i].selector.drag_anchor # NoneAnchor

\* on_refresh giving Other, on a hybrid topology, the efficiency range as
\* its default instead of the full range
OnRefresh_other_restricted ==
    /\ Len(workers) < MaxScans
    /\ ~Dragging
    /\ LET r == refresh_processes_sync(os, MyPid, cpu_info)
       IN  /\ active_groups' = r.active_groups
           /\ known_pids' = r.known_pids
    /\ other_selector' =
          Disabled([CoreSelector(cpu_info) EXCEPT
                       !.start = IF cpu_info.e_count > 0
                                 THEN cpu_info.p_count ELSE 0])
    /\ other_label' = NoLabel
    /\ other_discovery_done' = FALSE
    /\ apply_btn' = "disabled"
    /\ workers' = Append(workers, NewWorker)
    /\ status_label' = "Refreshing..."
    /\ UNCHANGED <<hw, cpu_info, os, other_procs, after_queue, apply_log,
                   classVars, applyVars, drags, validVars>>

\* on_refresh, lines 692-710, with refresh_processes_sync, build_selectors
\* and start_async_other_discovery (lines 510-535)
OnRefresh ==
    /\ Len(workers) < MaxScans
    /\ ~Dragging
    /\ LET r == refresh_processes_sync(os, MyPid, cpu_info)
       IN  /\ active_groups' = r.active_groups
           /\ known_pids' = r.known_pids
    /\ other_selector' = Disabled(CoreSelector(cpu_info))
    /\ other_label' = NoLabel
    /\ other_discovery_done' = FALSE
    /\ apply_btn' = "disabled"
    /\ workers' = Append(workers, NewWorker)
    /\ status_label' = "Refreshing..."
    /\ UNCHANGED <<hw, cpu_info, os, other_procs, after_queue, apply_log,
                   classVars, applyVars, drags, validVars>>

\* the process w's scan would inspect: not known, named, not skipped, of
\* the caller's identity
Inspected(proc) ==
    /\ proc.pid \notin known_pids
    /\ Len(proc.name) # 0
    /\ ~InSkipAlways(lower(proc.name))
    /\ ~OtherIdentity(CurrentUser(os, MyPid), proc.username)

\* discover() over a find_other_processes without its try/except: a
\* process that raises ends the thread, which stores nothing, sets no
\* flag and posts nothing
DiscoverScan_dies_on_fault(w) ==
    /\ workers[w].pc = "sleep"
    /\ workers' = [workers EXCEPT ![w] =
                      IF \E i \in 1..Len(os) : Inspected(os[i]) /\ Raises(os[i])
                      THEN [pc |-> "dead", result |-> << >>]
                      ELSE [pc |-> "store",
                            result |-> find_other_processes(os, known_pids, MyPid)]]
    /\ UNCHANGED <<hw, cpu_info, os, active_groups, known_pids, other_procs,
                   other_discovery_done, other_selector, apply_btn,
                   status_label, other_label, after_queue, apply_log,
                   classVars, applyVars, drags, validVars>>

\* discover(), line 523, the call: find_other_processes(self.known_pids)
DiscoverScan(w) ==
    /\ workers[w].pc = "sleep"
    /\ workers' = [workers EXCEPT ![w] =
                      [pc |-> "store",
                       result |-> find_other_processes(os, known_pids, MyPid)]]
    /\ UNCHANGED <<hw, cpu_info, os, active_groups, known_pids, other_procs,
                   other_discovery_done, other_selector, apply_btn,
                   status_label, other_label, after_queue, apply_log,
                   classVars, applyVars, drags, validVars>>

\* discover(), line 523, the assignment: self.other_procs = ...
DiscoverStore(w) ==
    /\ workers[w].pc = "store"
    /\ other_procs' = workers[w].result
    /\ workers' = [workers EXCEPT ![w] = [pc |-> "flag", result |-> << >>]]
    /\ UNCHANGED <<hw, cpu_info, os, active_groups, known_pids,
                   other_discovery_done, other_selector, apply_btn,
                   status_label, other_label, after_queue, apply_log,
                   classVars, applyVars, drags, validVars>>

\* discover(), line 525: self.other_discovery_done = True
DiscoverFlag(w) ==
    /\ workers[w].pc = "flag"
    /\ other_discovery_done' = TRUE
    /\ workers' = [workers EXCEPT ![w].pc = "post"]
    /\ UNCHANGED <<hw, cpu_info, os, active_groups, known_pids, other_procs,
                   other_selector, apply_btn, status_label, other_label,
                   after_queue, apply_log, classVars, applyVars, drags, validVars>>

\* discover(), line 528: self.root.after(0, self.on_other_discovery_complete)
DiscoverPost(w) ==
    /\ workers[w].pc = "post"
    /\ after_queue' = after_queue + 1
    /\ workers' = [workers EXCEPT ![w].pc = "done"]
    /\ UNCHANGED <<hw, cpu_info, os, active_groups, known_pids, other_procs,
                   other_discovery_done, other_selector, apply_btn,
                   status_label, other_label, apply_log, classVars, applyVars, drags, validVars>>

\* on_other_discovery_complete, lines 537-542, run by the main loop
OnOtherDiscoveryComplete ==
    /\ after_queue > 0
    /\ after_queue' = after_queue - 1
    /\ apply_btn' = "normal"
    /\ other_label' = update_other_label(other_label, other_procs)
    /\ status_label' = "Ready"
    /\ UNCHANGED <<hw, cpu_info, os, active_groups, known_pids, other_procs,
                   other_discovery_done, other_selector, workers, apply_log,
                   classVars, applyVars, drags, validVars>>

\* on_apply discarding the chosen Other range when the operator declines
\* the warning: the selector is rebuilt with its default range
OnApply_discard_range(response) ==
    /\ apply_btn = "normal"
    /\ ~Dragging
    /\ apply_log.calls < MaxApplies
    /\ LET r == on_apply(active_groups, other_procs, other_selector,
                         other_discovery_done, cpu_info, os, response)
       IN  /\ os' = r.table
           /\ apply_log' = [calls |-> apply_log.calls + 1] @@ r.log
           /\ status_label' = IF r.status = "" THEN status_label ELSE r.status
           /\ other_selector' = IF r.log.outcome = "cancelled"
                                 THEN CoreSelector(cpu_info)
                                 ELSE other_selector
    /\ UNCHANGED <<hw, cpu_info, active_groups, known_pids, other_procs,
                   other_discovery_done, apply_btn,
                   other_label, workers, after_queue, classVars, applyVars, drags, validVars>>

\* on_apply, lines 735-792: the command of the Apply button, which a
\* disabled button does not run; response is the operator's answer to
\* the warning, if one is asked
OnApply(response) ==
    /\ apply_btn = "normal"
    /\ ~Dragging
    /\ apply_log.calls < MaxApplies
    /\ LET r == on_apply(active_groups, other_procs, other_selector,
                         other_discovery_done, cpu_info, os, response)
       IN  /\ os' = r.table
           /\ apply_log' = [calls |-> apply_log.calls + 1] @@ r.log
           /\ status_label' = IF r.status = "" THEN status_label ELSE r.status
    /\ UNCHANGED <<hw, cpu_info, active_groups, known_pids, other_procs,
                   other_discovery_done, other_selector, apply_btn,
                   other_label, workers, after_queue, classVars, applyVars, drags, validVars>>

\* the x coordinates of the mouse events: left of the track, inside each
\* core, and right of the last core
MouseXs == {-5} \cup {padding_x + k * (core_width + core_spacing) + 10 :
                         k \in 0..AppHw.logical}

\* <Button-1>, <B1-Motion> and <ButtonRelease-1> on the selector of group
\* which, or on other_selector when which = 0
MouseDown(which, x) ==
    /\ ~Dragging
    /\ drags < MaxDrags
    /\ drags' = drags + 1
    /\ IF which = 0
       THEN /\ other_selector' = on_mouse_down(other_selector, x)
            /\ UNCHANGED active_groups
       ELSE /\ active_groups' = [active_groups EXCEPT ![which].selector =
                                    on_mouse_down(@, x)]
            /\ UNCHANGED other_selector
    /\ UNCHANGED <<hw, cpu_info, os, known_pids, other_procs,
                   other_discovery_done, apply_btn, status_label, other_label,
                   workers, after_queue, apply_log, classVars, applyVars, validVars>>

MouseMove(which, x) ==
    /\ IF which = 0
       THEN /\ other_selector.drag_anchor # NoneAnchor
            /\ other_selector' = on_mouse_move(other_selector, x)
            /\ UNCHANGED active_groups
       ELSE /\ active_groups[which].selector.drag_anchor # NoneAnchor
            /\ active_groups' = [active_groups EXCEPT ![which].selector =
                                    on_mouse_move(@, x)]
            /\ UNCHANGED other_selector
    /\ UNCHANGED <<hw, cpu_info, os, known_pids, other_procs,
                   other_discovery_done, apply_btn, status_label, other_label,
                   workers, after_queue, apply_log, classVars, applyVars, drags, validVars>>

MouseUp(which) ==
    /\ IF which = 0
       THEN /\ other_selector.drag_anchor # NoneAnchor
            /\ other_selector' = on_mouse_up(other_selector)
            /\ UNCHANGED active_groups
       ELSE /\ active_groups[which].selector.drag_anchor # NoneAnchor
            /\ active_groups' = [active_groups EXCEPT ![which].selector =
                                    on_mouse_up(@)]
            /\ UNCHANGED other_selector
    /\ UNCHANGED <<hw, cpu_info, os, known_pids, other_procs,
                   other_discovery_done, apply_btn, status_label, other_label,
                   workers, after_queue, apply_log, classVars, applyVars, drags, validVars>>

\* the environment: a process's load changes; a process exits
CpuChange(pid, level) ==
    /\ os[pid].status = "running"
    /\ os[pid].cpu_percent # level
    /\ os' = [os EXCEPT ![pid].cpu_percent = level]
    /\ UNCHANGED <<hw, cpu_info, appVars, classVars, applyVars, validVars>>

ProcExit(pid) ==
    /\ os[pid].status = "running"
    /\ os' = [os EXCEPT ![pid].status = "gone"]
    /\ UNCHANGED <<hw, cpu_info, appVars, classVars, applyVars, validVars>>

Next ==
    \/ OnRefresh
    \/ \E w \in 1..Len(workers) : DiscoverScan(w)
    \/ \E w \in 1..Len(workers) : DiscoverStore(w)
    \/ \E w \in 1..Len(workers) : DiscoverFlag(w)
    \/ \E w \in 1..Len(workers) : DiscoverPost(w)
    \/ OnOtherDiscoveryComplete
    \/ \E response \in BOOLEAN : OnApply(response)
    \/ \E which \in 0..Len(active_groups), x \in MouseXs : MouseDown(which, x)
    \/ \E which \in 0..Len(active_groups), x \in MouseXs : MouseMove(which, x)
    \/ \E which \in 0..Len(active_groups) : MouseUp(which)
    \/ \E pid \in Volatile, level \in CpuLevels : CpuChange(pid, level)
    \/ \E pid \in Mortal : ProcExit(pid)

Spec == Init /\ [][Next]_vars

(***************************************************************************)
(* Claims about the application.                                           *)
(***************************************************************************)
\* the scan of worker w has completed: find_other_processes has returned
\* and its result and the done flag have been written
ScanCompleted(w) == workers[w].pc \in {"post", "done"}

\* this step is a statement of an already running discover() thread
WorkerStep == \E w \in 1..Len(workers) : workers'[w] # workers[w]

\* this step is a statement of a discover() thread that is stale: a later
\* refresh has dispatched a newer scan
StaleWorkerStep == \E w \in 1..(Len(workers) - 1) : workers'[w] # workers[w]

\* the groups (named and top-CPU) pid is a member of
GroupsOf(pid) ==
    {i \in 1..Len(active_groups) : pid \in SeqPids(active_groups[i].procs)}

\* C1: an apply request calls cpu_affinity on no process while a
\* dispatched full scan has not yet completed.
C1_NoApplyDuringScan ==
    [][(apply_log'.calls # apply_log.calls /\ apply_log'.attempts # << >>)
          => \A w \in 1..Len(workers) : ScanCompleted(w)]_vars

\* C4: in every reachable state each process id is a member of at most
\* one group among the named groups, the top-CPU group and other_procs.
C4_AtMostOneGroup ==
    \A pid \in 1..Len(os) :
        Cardinality(GroupsOf(pid))
            + (IF pid \in SeqPids(other_procs) THEN 1 ELSE 0) <= 1

\* C5: an apply request in which the validator warns and the operator
\* declines has called cpu_affinity on no process of any group.
C5_DeclineAppliesNothing ==
    apply_log.outcome = "cancelled" => apply_log.attempts = << >>

\* C6: a scan made stale by a later refresh never writes the catch-all
\* set, never sets the done flag and never posts its completion.
C6_StaleScanCannotRace ==
    [][StaleWorkerStep
          => /\ other_procs' = other_procs
             /\ other_discovery_done' = other_discovery_done
             /\ after_queue' = after_queue]_vars

\* C7: other_procs and other_discovery_done change only in steps of the
\* interactive context, never in a statement of a discover() thread.
C7_WorkerNeverWritesShared ==
    [][(other_procs' # other_procs
           \/ other_discovery_done' # other_discovery_done)
          => ~WorkerStep]_vars

\* the range of selector sel, for threads threads, draws a validator
\* warning: no performance core in it while the topology has one, or more
\* than 300 threads per core
DrawsWarning(sel, threads) ==
    \/ /\ TopologyHasP
       /\ \A c \in sel.start..sel.end : CoreLabel(cpu_info, c) # "P"
    \/ threads > 300 * (sel.end - sel.start + 1)

\* C18: an apply request sets the affinity of a group (named, top-CPU or
\* catch-all) whose chosen range draws a validator warning only when the
\* operator has been asked and has confirmed.
C18_EveryGroupValidated ==
    [][(apply_log'.calls # apply_log.calls) =>
          LET attempted == {apply_log'.attempts[k] :
                               k \in 1..Len(apply_log'.attempts)}
              confirmed == /\ apply_log'.warning # "none"
                           /\ apply_log'.outcome # "cancelled"
          IN  /\ \A g \in 1..Len(active_groups) :
                    (/\ DrawsWarning(active_groups[g].selector,
                                     sum_threads(active_groups[g].procs, 1))
                     /\ SeqPids(active_groups[g].procs) \cap attempted # {})
                    => confirmed
              /\ (/\ DrawsWarning(other_selector, sum_threads(other_procs, 1))
                  /\ SeqPids(other_procs) \cap attempted # {})
                 => confirmed]_vars

\* C19: an apply request, validation included, leaves the chosen range of
\* every group and of Other (selector start and end) as it was, also when
\* the operator declines the warning.
C19_RangeNeverDiscarded ==
    [][(apply_log'.calls # apply_log.calls) =>
          /\ other_selector'.start = other_selector.start
          /\ other_selector'.end = other_selector.end
          /\ Len(active_groups') = Len(active_groups)
          /\ \A g \in 1..Len(active_groups) :
                /\ active_groups'[g].selector.start = active_groups[g].selector.start
                /\ active_groups'[g].selector.end = active_groups[g].selector.end]_vars

C19_Witness ==
    /\ apply_log.calls = 1
    /\ apply_log.outcome = "cancelled"
    /\ apply_log.warning = "thread density"
    /\ drags = 1
    /\ other_selector.start = 1 /\ other_selector.end = 1

\* C30: in every reachable state, under any interleaving of refreshes,
\* worker completions and posted completion callbacks, whenever the Apply
\* control is enabled the discovery-done flag is true.
C30_EnabledImpliesDone ==
    apply_btn = "normal" => other_discovery_done

(***************************************************************************)
(* SpecOnApply: one apply request (on_apply) after a completed scan, over  *)
(* every choice of group members, ranges (that of a selector over zero     *)
(* cores, which get_cores gives as the empty list, included) and process   *)
(* statuses.                                                               *)
(***************************************************************************)
ApplyStatuses == {"running", "gone", "denied"}

ApplyTables ==
    {[pid \in 1..3 |->
        [(<<AppProc(1, N_python, 10, 0), AppProc(2, N_Discord, 40, 0),
            AppProc(3, N_chrome, 400, 0)>>)[pid]
            EXCEPT !.status = IF pid = 1 THEN "running" ELSE st[pid]]] :
        st \in [2..3 -> ApplyStatuses]}

\* the ranges a selector can hold: the default, one core after a click,
\* and the empty range of a selector over no cores
ApplySelectors ==
    {CoreSelector(get_cpu_info(AppHw.logical, AppHw.physical)),
     CoreSelector(NoInfo)}
    \cup {on_mouse_up(on_mouse_down(
              CoreSelector(get_cpu_info(AppHw.logical, AppHw.physical)), x)) :
              x \in MouseXs}

OnApplyInit ==
    /\ hw = AppHw
    /\ cpu_info = get_cpu_info(AppHw.logical, AppHw.physical)
    /\ os \in ApplyTables
    /\ active_groups \in
          {<< >>} \cup
          {<<[name |-> <<KNOWN_PATTERNS[2].name>>,
              patterns |-> KNOWN_PATTERNS[2].patterns,
              procs |-> <<fast_proc_data(os[2])>>,
              selector |-> sel]>> : sel \in ApplySelectors}
    /\ known_pids = UNION {SeqPids(active_groups[g].procs) :
                              g \in 1..Len(active_groups)}
    /\ other_procs \in
          {<< >>,
           <<[pid |-> 3, name |-> os[3].name, threads |-> os[3].num_threads]>>,
           <<[pid |-> 1, name |-> os[1].name, threads |-> os[1].num_threads],
             [pid |-> 3, name |-> os[3].name, threads |-> os[3].num_threads]>>}
    /\ other_selector \in ApplySelectors
    /\ other_discovery_done = TRUE
    /\ apply_btn = "normal"
    /\ status_label = "Ready"
    /\ other_label = update_other_label(NoLabel, other_procs)
    /\ workers = <<[pc |-> "done", result |-> << >>]>>
    /\ after_queue = 0
    /\ apply_log = NoLog
    /\ drags = 0
    /\ ClassIdle /\ ApplyIdle /\ ValidIdle

OnApplyNext == \E response \in BOOLEAN : OnApply(response)

SpecOnApply == OnApplyInit /\ [][OnApplyNext]_vars

\* the pids cpu_affinity(cores) was called on by the apply request
Attempted == {apply_log.attempts[k] : k \in 1..Len(apply_log.attempts)}

\* the apply request made no attempt on procs, produced no result line
\* under name and no error line for them, and left their masks alone
NothingDone(name, procs) ==
    /\ SeqPids(procs) \cap Attempted = {}
    /\ \A k \in 1..Len(apply_log.all_results) :
          apply_log.all_results[k].name # name
    /\ \A k \in 1..Len(apply_log.errors) :
          apply_log.errors[k].pid \notin SeqPids(procs)
    /\ \A pid \in SeqPids(procs) : os[pid].cores = 0..(AppHw.logical - 1)

\* C21: an apply request makes no affinity-set attempt on the processes of
\* a group whose core range is empty, produces no result and no error for
\* them and leaves their masks alone; when every range is empty the
\* request ends in the "No processes to update!" notice.
C21_EmptyRangeNoOp ==
    apply_log.calls = 1 =>
        /\ \A g \in 1..Len(active_groups) :
              active_groups[g].selector.end < active_groups[g].selector.start
              => NothingDone(active_groups[g].name, active_groups[g].procs)
        /\ other_selector.end < other_selector.start
              => NothingDone(<<"Other">>, other_procs)
        /\ (/\ other_selector.end < other_selector.start
            /\ \A g \in 1..Len(active_groups) :
                  active_groups[g].selector.end < active_groups[g].selector.start)
           => /\ apply_log.attempts = << >>
              /\ apply_log.all_results = << >>
              /\ apply_log.errors = << >>
              /\ apply_log.outcome = "No processes to update!"

C21_Witness ==
    /\ apply_log.calls = 1
    /\ Len(active_groups) = 1
    /\ active_groups[1].selector.end < active_groups[1].selector.start
    /\ os[2].status = "running"
    /\ Len(other_procs) = 2
    /\ other_selector.start = 0 /\ other_selector.end = 1
    /\ apply_log.attempts = <<1, 3>>
    /\ apply_log.outcome = "Success"

(***************************************************************************)
(* SpecStartup: the default ranges. The host reports any topology and a    *)
(* snapshot with any of the three categories running; the application is   *)
(* constructed (__init__, lines 437-468: get_cpu_info,                     *)
(* refresh_processes_sync, build_gui, start_async_other_discovery), the    *)
(* operator drags on the selectors and refreshes.                          *)
(***************************************************************************)
MaxPlanLogical == 20

\* which of javaw.exe (2), Discord.exe (3) and OBS64.exe (4) are running:
\* all three, or Discord alone
PlanStatuses ==
    {[pid \in 2..4 |-> "running"],
     [pid \in 2..4 |-> IF pid = 3 THEN "running" ELSE "gone"]}

PlanTables(l) ==
    {[pid \in 1..4 |->
        [pid |-> pid,
         name |-> (<<N_python, N_javaw, N_Discord, N_OBS>>)[pid],
         username |-> U_al, num_threads |-> 8, cpu_percent |-> 0,
         status |-> IF pid = 1 THEN "running" ELSE st[pid],
         cores |-> 0..(l - 1)]] :
        st \in PlanStatuses}

StartupInit ==
    /\ hw \in {[logical |-> l, physical |-> ph] :
                  l \in 1..MaxPlanLogical, ph \in 0..MaxPlanLogical}
    /\ hw.physical <= hw.logical
    /\ cpu_info = NoInfo
    /\ os \in PlanTables(hw.logical)
    /\ ClassIdle /\ ApplyIdle /\ AppIdle /\ ValidIdle

\* AffinityManagerApp.__init__, lines 437-468
Construct ==
    /\ cpu_info = NoInfo
    /\ LET info == get_cpu_info(hw.logical, hw.physical)
           r    == refresh_processes_sync(os, MyPid, info)
       IN  /\ cpu_info' = info
           /\ active_groups' = r.active_groups
           /\ known_pids' = r.known_pids
           /\ other_selector' = Disabled(CoreSelector(info))
    /\ other_procs' = << >>
    /\ other_discovery_done' = FALSE
    /\ apply_btn' = "disabled"
    /\ status_label' = "Loading other processes..."
    /\ other_label' = NoLabel
    /\ workers' = <<NewWorker>>
    /\ UNCHANGED <<hw, os, after_queue, apply_log, drags, classVars,
                   applyVars, validVars>>

StartupNext ==
    \/ Construct
    \/ /\ Detected
       /\ \/ OnRefresh
          \/ \E which \in 0..Len(active_groups), x \in MouseXs : MouseDown(which, x)
          \/ \E which \in 0..Len(active_groups), x \in MouseXs : MouseMove(which, x)
          \/ \E which \in 0..Len(active_groups) : MouseUp(which)

SpecStartup == StartupInit /\ [][StartupNext]_vars

\* this step builds the selectors: the construction or a refresh
BuildsSelectors == Len(workers') = Len(workers) + 1

\* C22: on a heterogeneous topology (e_count > 0) the selectors are built
\* with the first group on the full performance range [0, p_count-1] and
\* the efficiency range [p_count, logical-1] split evenly between the
\* next two groups; for logical=20, physical=12 and three running
\* categories the defaults are [0,15], [16,17], [18,19].
C22_HeterogeneousDefaults ==
    [][(BuildsSelectors /\ cpu_info'.e_count > 0) =>
          LET pc == cpu_info'.p_count
              ec == cpu_info'.e_count
              g  == active_groups'
          IN  /\ Len(g) >= 1 =>
                    /\ g[1].selector.start = 0
                    /\ g[1].selector.end = pc - 1
              /\ (Len(g) >= 3 /\ ec % 2 = 0) =>
                    /\ g[2].selector.start = pc
                    /\ g[2].selector.end = pc + (ec \div 2) - 1
                    /\ g[3].selector.start = pc + (ec \div 2)
                    /\ g[3].selector.end = hw.logical - 1
              /\ (Len(g) = 3 /\ hw.logical = 20 /\ hw.physical = 12) =>
                    /\ g[1].selector.start = 0 /\ g[1].selector.end = 15
                    /\ g[2].selector.start = 16 /\ g[2].selector.end = 17
                    /\ g[3].selector.start = 18 /\ g[3].selector.end = 19]_vars

\* C23: for every topology, the construction and every refresh leave the
\* selector of the catch-all group on the full range [0, logical-1].
C23_CatchAllFullRange ==
    [][BuildsSelectors =>
          /\ other_selector'.start = 0
          /\ other_selector'.end = hw.logical - 1]_vars

C23_Witness ==
    /\ Len(workers) = 2
    /\ drags = 1
    /\ hw.logical = 20 /\ hw.physical = 12
    /\ cpu_info.e_count = 4
    /\ Len(active_groups) = 3
    /\ other_selector.start = 0 /\ other_selector.end = 19

(***************************************************************************)
(* SpecSelector: one CoreSelector over 1..MaxSelCores cores, and any       *)
(* sequence of calls of set_range with integers in and out of range and    *)
(* of the mouse handlers with positions left of, inside and right of the   *)
(* track.                                                                  *)
(***************************************************************************)
MaxSelCores == 5

SelArgs == (-2)..(MaxSelCores + 1)

SelXs ==
    {-40, -5, 0} \cup
    {padding_x + k * (core_width + core_spacing) + d :
        k \in 0..(MaxSelCores + 1), d \in {0, core_width + 1}}

SelectorInit ==
    /\ hw \in {[logical |-> l, physical |-> l] : l \in 1..MaxSelCores}
    /\ cpu_info = get_cpu_info(hw.logical, hw.physical)
    /\ other_selector = CoreSelector(cpu_info)
    /\ os = << >>
    /\ active_groups = << >> /\ known_pids = {} /\ other_procs = << >>
    /\ other_discovery_done = FALSE
    /\ apply_btn = "disabled" /\ status_label = "" /\ other_label = NoLabel
    /\ workers = << >> /\ after_queue = 0 /\ apply_log = NoLog
    /\ drags = 0
    /\ ClassIdle /\ ApplyIdle /\ ValidIdle

SelSetRange(a, b) ==
    /\ other_selector' = set_range(other_selector, a, b)
    /\ UNCHANGED <<hw, cpu_info, os, active_groups, known_pids, other_procs,
                   other_discovery_done, apply_btn, status_label, other_label,
                   workers, after_queue, apply_log, drags, classVars,
                   applyVars, validVars>>

SelMouseDown(x) ==
    /\ other_selector' = on_mouse_down(other_selector, x)
    /\ UNCHANGED <<hw, cpu_info, os, active_groups, known_pids, other_procs,
                   other_discovery_done, apply_btn, status_label, other_label,
                   workers, after_queue, apply_log, drags, classVars,
                   applyVars, validVars>>

SelMouseMove(x) ==
    /\ other_selector' = on_mouse_move(other_selector, x)
    /\ UNCHANGED <<hw, cpu_info, os, active_groups, known_pids, other_procs,
                   other_discovery_done, apply_btn, status_label, other_label,
                   workers, after_queue, apply_log, drags, classVars,
                   applyVars, validVars>>

SelMouseUp ==
    /\ other_selector' = on_mouse_up(other_selector)
    /\ UNCHANGED <<hw, cpu_info, os, active_groups, known_pids, other_procs,
                   other_discovery_done, apply_btn, status_label, other_label,
                   workers, after_queue, apply_log, drags, classVars,
                   applyVars, validVars>>

SelectorNext ==
    \/ \E a \in SelArgs, b \in SelArgs : SelSetRange(a, b)
    \/ \E x \in SelXs : SelMouseDown(x)
    \/ \E x \in SelXs : SelMouseMove(x)
    \/ SelMouseUp

SpecSelector == SelectorInit /\ [][SelectorNext]_vars

\* C25: after any sequence of set_range calls and mouse events the range
\* of the selector satisfies 0 <= start <= end <= logical_count - 1, and
\* get_cores returns exactly the ids start..end, in order.
C25_RangeInvariant ==
    /\ 0 <= other_selector.start
    /\ other_selector.start <= other_selector.end
    /\ other_selector.end <= hw.logical - 1
    /\ LET cores == get_cores(other_selector)
       IN  /\ Len(cores) = other_selector.end - other_selector.start + 1
           /\ \A k \in 1..Len(cores) :
                 cores[k] = other_selector.start + k - 1
           /\ {cores[k] : k \in 1..Len(cores)}
                 = other_selector.start..other_selector.end

C25_Witness ==
    /\ hw.logical = 5
    /\ other_selector.drag_anchor = 3
    /\ other_selector.start = 1 /\ other_selector.end = 3
    /\ get_cores(other_selector) = <<1, 2, 3>>

(***************************************************************************)
(* SpecLive: the application under fair scheduling. Every started          *)
(* discover() thread keeps being scheduled (the threads are daemon threads *)
(* of a running interpreter) and the Tk main loop keeps serving the        *)
(* callbacks queued with after(0, ...). The operator and the environment   *)
(* are under no obligation. The runs start with the unknown process either *)
(* running or denying access, and the known one may exit at any time.      *)
(***************************************************************************)
LiveTables ==
    {<<AppProc(1, N_python, 10, 0), AppProc(2, N_Discord, 40, 0),
       [AppProc(3, N_chrome, 400, 0) EXCEPT !.status = st]>> :
          st \in {"running", "denied"}}

LiveInit ==
    /\ hw = AppHw
    /\ cpu_info = get_cpu_info(AppHw.logical, AppHw.physical)
    /\ os \in LiveTables
    /\ LET r == refresh_processes_sync(os, MyPid, get_cpu_info(AppHw.logical, AppHw.physical))
       IN  /\ active_groups = r.active_groups
           /\ known_pids = r.known_pids
    /\ other_procs = << >>
    /\ other_discovery_done = FALSE
    /\ other_selector = Disabled(CoreSelector(get_cpu_info(AppHw.logical, AppHw.physical)))
    /\ apply_btn = "disabled"
    /\ status_label = "Loading other processes..."
    /\ other_label = NoLabel
    /\ workers = <<NewWorker>>
    /\ after_queue = 0
    /\ apply_log = NoLog
    /\ drags = 0
    /\ ClassIdle /\ ApplyIdle /\ ValidIdle

\* the next statement of the discover() thread of scan w
Discover(w) ==
    /\ w \in 1..Len(workers)
    /\ (DiscoverScan(w) \/ DiscoverStore(w) \/ DiscoverFlag(w) \/ DiscoverPost(w))

Fairness ==
    /\ \A w \in 1..MaxScans : WF_vars(Discover(w))
    /\ WF_vars(OnOtherDiscoveryComplete)

\* Next without the operator's pointer: the mouse handlers write only the
\* ranges of the selectors, which no statement of discover() and no
\* completion callback reads
LiveNext ==
    \/ OnRefresh
    \/ \E w \in 1..Len(workers) : DiscoverScan(w)
    \/ \E w \in 1..Len(workers) : DiscoverStore(w)
    \/ \E w \in 1..Len(workers) : DiscoverFlag(w)
    \/ \E w \in 1..Len(workers) : DiscoverPost(w)
    \/ OnOtherDiscoveryComplete
    \/ \E response \in BOOLEAN : OnApply(response)
    \/ \E pid \in Volatile, level \in CpuLevels : CpuChange(pid, level)
    \/ \E pid \in Mortal : ProcExit(pid)

SpecLive == LiveInit /\ [][LiveNext]_vars /\ Fairness

\* C29: after startup and after every refresh, under fair scheduling of
\* the worker threads and the event loop and with no further refresh, the
\* dispatched scan eventually completes, the discovery-done flag becomes
\* true and Apply becomes enabled, even when processes vanish or deny
\* access during the scan.
C29_ScanEventuallyCompletes ==
    \A n \in 1..MaxScans :
        (Len(workers) = n) ~>
            \/ Len(workers) > n
            \/ /\ Len(workers) = n
               /\ workers[n].pc = "done"
               /\ other_discovery_done
               /\ apply_btn = "normal"

C29_Witness ==
    /\ Len(workers) = MaxScans
    /\ workers[MaxScans].pc = "done"
    /\ other_discovery_done
    /\ apply_btn = "normal"
    /\ after_queue = 0
    /\ os[3].status = "denied"
    /\ os[2].status = "gone" /\ 2 \notin known_pids

=============================================================================
